---- MODULE Spec2Model ----
(***************************************************************************)
(* Model of the two scripts of yolov8trt:                                  *)
(*   - ultralytics/yolo/utils/benchmarks.py : run_benchmarks               *)
(*   - yolo.py                              : the CLI dispatcher           *)
(*                                                                         *)
(* Python strings that the code searches (`in`, isnumeric) are sequences   *)
(* of one-character strings; strings that are only compared or passed on   *)
(* are TLA+ strings.  Python objects whose truth value or type the code    *)
(* tests are records [t |-> type name, v |-> printed value].               *)
(* A metric is an integer count of 1e-5 units (0.29 is 29000).             *)
(***************************************************************************)
EXTENDS Integers, Sequences, FiniteSets, TLC

VARIABLES
    \* ---- run_benchmarks ----
    device,       \* torch.device(...).type after line 44
    hard_fail,    \* the hard_fail argument
    task,         \* model.task
    system,       \* what platform.system() returns on this host
    pc,           \* position in run_benchmarks
    i, cpu, gpu,  \* loop variables of line 49 (name, format, suffix follow from i)
    filename,     \* local `filename`
    key, data,    \* locals `key`, `data`
    y,            \* the results list
    c,            \* local `c`, the report columns
    floor,        \* local `floor`
    raised,       \* the exception that left run_benchmarks
    calls,        \* library calls made by the latest iteration, in order
    e,            \* type of the exception the latest iteration caught at line 79
    \* ---- yolo.py ----
    argv,         \* command line options given
    m_cfg, m_mode, m_overrides, m_model_file, model,
    opCalls,      \* model operations invoked, in order
    cpc,          \* position in the script
    cerr          \* where an error ended the script

bvars == <<device, hard_fail, task, system, pc, i, cpu, gpu, filename, key, data,
           y, c, floor, raised, calls, e>>
cvars == <<argv, m_cfg, m_mode, m_overrides, m_model_file, model, opCalls, cpc, cerr>>
vars == <<bvars, cvars>>

----------------------------------------------------------------------------
(* Bounds *)

\* Formats with index below MaxExportable have their toolchain installed:
\* only their export call can return.
MaxExportable == 2

----------------------------------------------------------------------------
(* Python helpers *)

None == <<>>               \* a null cell of a results row
Some(v) == <<v>>           \* a non-null cell
Unbound == "<unbound>"     \* a local name that was never assigned
NoFile == <<>>             \* `filename` before its first assignment

\* Python `sub in s` for strings
Contains(sub, s) ==
    \E k \in 0..(Len(s) - Len(sub)) : SubSeq(s, k + 1, k + Len(sub)) = sub

Digits == {"0", "1", "2", "3", "4", "5", "6", "7", "8", "9"}

\* str.isnumeric()
isnumeric(s) == Len(s) > 0 /\ \A k \in 1..Len(s) : s[k] \in Digits

RECURSIVE BeforeColon(_)
BeforeColon(s) ==
    IF s = <<>> \/ Head(s) = ":" THEN <<>> ELSE <<Head(s)>> \o BeforeColon(Tail(s))

\* line 44: torch.device(int(device) if device.isnumeric() else device).type
\* An integer device is a CUDA ordinal; a string device is 'type' or 'type:index'.
TorchDeviceType(d) ==
    IF isnumeric(d) THEN <<"c", "u", "d", "a">> ELSE BeforeColon(d)

\* bool(o)
Truthy(o) ==
    CASE o.t = "bool" -> o.v = "True"
      [] o.t = "str" -> o.v # ""
      [] o.t = "NoneType" -> FALSE
      [] OTHER -> TRUE

\* isinstance(o, str)
IsStr(o) == o.t = "str"

\* Mutant of map: the name is a flag that follows an argument of the call
map_Flag == hard_fail

\* The name `map` at lines 88 and 92: run_benchmarks has no parameter or
\* local of that name and the module assigns none, so it is the builtin.
map == [t |-> "type", v |-> "<class 'map'>"]

\* round(x, 4) on a metric in 1e-5 units (ties to even)
Round4(x) ==
    LET q == x \div 10
        r == x % 10
    IN  IF r < 5 THEN q * 10
        ELSE IF r > 5 THEN (q + 1) * 10
        ELSE IF q % 2 = 0 THEN q * 10 ELSE (q + 1) * 10

\* eval(s) for the expressions used here, in 1e-5 units (True is 1)
Eval(s) ==
    CASE s = "0.29" -> 29000
      [] s = "True" -> 100000
      [] s = "False" -> 0

----------------------------------------------------------------------------
(* run_benchmarks: the format table and the inputs *)

\* export_formats(): the rows listed in the module docstring, in order.  The
\* CPU and GPU columns are not fixed here: each row's flags are read when the
\* for statement reaches it.
Formats == <<
    [name |-> "PyTorch", format |-> "-",
     suffix |-> <<".", "p", "t">>],
    [name |-> "TorchScript", format |-> "torchscript",
     suffix |-> <<".", "t", "o", "r", "c", "h", "s", "c", "r", "i", "p", "t">>],
    [name |-> "ONNX", format |-> "onnx",
     suffix |-> <<".", "o", "n", "n", "x">>],
    [name |-> "OpenVINO", format |-> "openvino",
     suffix |-> <<"_", "o", "p", "e", "n", "v", "i", "n", "o", "_", "m", "o", "d", "e", "l">>],
    [name |-> "TensorRT", format |-> "engine",
     suffix |-> <<".", "e", "n", "g", "i", "n", "e">>],
    [name |-> "CoreML", format |-> "coreml",
     suffix |-> <<".", "m", "l", "m", "o", "d", "e", "l">>],
    [name |-> "TensorFlow SavedModel", format |-> "saved_model",
     suffix |-> <<"_", "s", "a", "v", "e", "d", "_", "m", "o", "d", "e", "l">>],
    [name |-> "TensorFlow GraphDef", format |-> "pb",
     suffix |-> <<".", "p", "b">>],
    [name |-> "TensorFlow Lite", format |-> "tflite",
     suffix |-> <<".", "t", "f", "l", "i", "t", "e">>],
    [name |-> "TensorFlow Edge TPU", format |-> "edgetpu",
     suffix |-> <<"_", "e", "d", "g", "e", "t", "p", "u", ".", "t", "f", "l", "i", "t", "e">>],
    [name |-> "TensorFlow.js", format |-> "tfjs",
     suffix |-> <<"_", "w", "e", "b", "_", "m", "o", "d", "e", "l">>],
    [name |-> "PaddlePaddle", format |-> "paddle",
     suffix |-> <<"_", "p", "a", "d", "d", "l", "e", "_", "m", "o", "d", "e", "l">>]
>>

NumFormats == Len(Formats)

\* `device` arguments: 'cpu', '0', 'cuda:0', 'mps'
Devices == {<<"c", "p", "u">>, <<"0">>, <<"c", "u", "d", "a", ":", "0">>, <<"m", "p", "s">>}

HardFails == {[t |-> "bool", v |-> "False"], [t |-> "bool", v |-> "True"],
              [t |-> "str", v |-> ""], [t |-> "str", v |-> "0.29"]}

Tasks == {"detect", "segment", "classify", "pose"}

Systems == {"Darwin", "Linux"}

\* str(model.ckpt_path)
ckpt_path == <<"y", "o", "l", "o", "v", "8", "n", ".", "p", "t">>

\* what results.results_dict[key] can be (1e-5 units): just below, just above
\* and well above 0.29
RawMetrics == {28994, 29004, 29016}

\* exceptions a library call (export, YOLO, val) can raise
LibraryErrors == {"AssertionError", "RuntimeError"}

\* the loop variables name, format, suffix of the current row
name == Formats[i + 1].name
format == Formats[i + 1].format
suffix == Formats[i + 1].suffix

\* what model.export can return for the current row: the model file with the
\* row's suffix, or the unconverted checkpoint
ExportReturns == {SubSeq(ckpt_path, 1, Len(ckpt_path) - 3) \o suffix, ckpt_path}

\* round(file_size(filename), 1) and round(speed, 2) of a measured format
size == 62
speed == 2505

PassRow(n, metric) == <<n, "PASS", Some(size), Some(Round4(metric)), Some(speed)>>
FailRow(n) == <<n, "FAIL", None, None, None>>

NoRaise == [type |-> "none", line |-> 0]
Raise(t, l) == [type |-> t, line |-> l]

----------------------------------------------------------------------------
(* run_benchmarks: the loop *)

\* lines 51-57: the four support assertions of a row all pass
Supported(idx, sys, dev, cpuflag, gpuflag) ==
    /\ idx \notin {9, 10}
    /\ idx # 5 \/ sys = "Darwin"
    /\ Contains(<<"c", "p", "u">>, dev) => cpuflag
    /\ Contains(<<"c", "u", "d", "a">>, dev) => gpuflag

\* Mutants of Escalates: hard_fail escalates every exception / none
Escalates_Any(ex) == Truthy(hard_fail)
Escalates_Never(ex) == FALSE

\* lines 80-81: the handler re-raises instead of recording the failure
Escalates(ex) == Truthy(hard_fail) /\ ex # "AssertionError"

\* line 49: the for statement takes the next row, or leaves the loop
ForNext ==
    IF i + 1 < NumFormats
    THEN /\ i' = i + 1
         /\ cpu' \in BOOLEAN
         /\ gpu' \in BOOLEAN
         /\ pc' = "try"
    ELSE /\ pc' = "report"
         /\ UNCHANGED <<i, cpu, gpu>>

\* Mutant of Except: the handler records no row
Except_NoRow(ex) ==
    IF Escalates(ex)
    THEN /\ e' = ex
         /\ pc' = "raised"
         /\ raised' = Raise("AssertionError", 81)
         /\ UNCHANGED <<y, i, cpu, gpu>>
    ELSE /\ e' = ex
         /\ y' = y
         /\ raised' = raised
         /\ ForNext

\* lines 79-83: the except clause, entered with an exception of type ex
Except(ex) ==
    IF Escalates(ex)
    THEN /\ e' = ex
         /\ pc' = "raised"
         /\ raised' = Raise("AssertionError", 81)
         /\ UNCHANGED <<y, i, cpu, gpu>>
    ELSE /\ e' = ex
         /\ y' = Append(y, FailRow(name))
         /\ raised' = raised
         /\ ForNext

\* lines 69-74: the metric key and dataset of the model's task
TaskKey(t) ==
    CASE t = "detect" -> "metrics/mAP50-95(B)"
      [] t = "segment" -> "metrics/mAP50-95(M)"
      [] t = "classify" -> "metrics/accuracy_top5"
      [] OTHER -> Unbound

TaskData(t) ==
    CASE t = "detect" -> "coco128.yaml"
      [] t = "segment" -> "coco128-seg.yaml"
      [] t = "classify" -> "imagenet100"
      [] OTHER -> Unbound

\* lines 50-57: a row is entered and its support assertions are evaluated
SupportChecks ==
    /\ pc = "try"
    /\ calls' = <<>>
    /\ IF Supported(i, system, device, cpu, gpu)
       THEN /\ pc' = "export"
            /\ e' = "none"
            /\ UNCHANGED <<y, i, cpu, gpu, raised>>
       ELSE Except("AssertionError")
    /\ UNCHANGED <<device, hard_fail, task, system, filename, key, data, c, floor>>

\* Mutant of SuffixOk: the assertion is missing
SuffixOk_Always(sfx, f) == TRUE

\* line 66: the assertion `suffix in str(filename)`
SuffixOk(sfx, f) == Contains(sfx, f)

\* lines 60-66: the export step and the suffix assertion
Export ==
    /\ pc = "export"
    /\ IF format = "-"
       THEN /\ filename' = ckpt_path
            /\ calls' = calls
            /\ IF SuffixOk(suffix, filename')
               THEN pc' = "validate" /\ UNCHANGED <<y, i, cpu, gpu, raised, e>>
               ELSE Except("AssertionError")
       ELSE \/ /\ calls' = Append(calls, "export")
               /\ filename' = filename
               /\ \E ex \in LibraryErrors : Except(ex)            \* model.export raises
            \/ /\ i < MaxExportable
               /\ calls' = calls \o <<"export", "YOLO">>
               /\ \E f \in ExportReturns :
                    /\ filename' = f
                    /\ \/ \E ex \in LibraryErrors : Except(ex)    \* YOLO(filename) raises
                       \/ IF SuffixOk(suffix, f)
                          THEN pc' = "validate" /\ UNCHANGED <<y, i, cpu, gpu, raised, e>>
                          ELSE Except("AssertionError")
    /\ UNCHANGED <<device, hard_fail, task, system, key, data, c, floor>>

\* lines 69-78: validation of the exported model and the success row
Validate ==
    /\ pc = "validate"
    /\ IF TaskKey(task) # Unbound
       THEN key' = TaskKey(task) /\ data' = TaskData(task)
       ELSE UNCHANGED <<key, data>>
    /\ IF data' = Unbound
       THEN /\ calls' = calls
            /\ Except("UnboundLocalError")             \* line 76 reads `data`
       ELSE /\ calls' = Append(calls, "val")
            /\ \/ \E ex \in LibraryErrors : Except(ex) \* export.val raises
               \/ \E metric \in RawMetrics :
                    /\ y' = Append(y, PassRow(name, metric))
                    /\ UNCHANGED <<raised, e>>
                    /\ ForNext
    /\ UNCHANGED <<device, hard_fail, task, system, filename, c, floor>>

----------------------------------------------------------------------------
(* run_benchmarks: the report and the floor *)

FullColumns(k) == <<"Format", "Status", "Size (MB)", k, "Inference time (ms/im)">>
ReducedColumns == <<"Format", "Export", "", "">>
NoColumns == <<>>

\* lines 86-92: the report
Report ==
    /\ pc = "report"
    /\ IF Truthy(map)
       THEN IF key = Unbound
            THEN /\ pc' = "raised"                     \* line 88 reads `key`
                 /\ raised' = Raise("UnboundLocalError", 88)
                 /\ c' = c
            ELSE /\ c' = FullColumns(key)
                 /\ pc' = "floor"
                 /\ raised' = raised
       ELSE /\ c' = ReducedColumns                     \* five cells per row, four columns
            /\ pc' = "raised"
            /\ raised' = Raise("ValueError", 89)
    /\ UNCHANGED <<device, hard_fail, task, system, i, cpu, gpu, filename, key, data,
                   y, floor, calls, e>>

\* df[k].array: the cells of the column named k
Column(cols, rows, k) ==
    LET j == CHOOSE n \in 1..Len(cols) : cols[n] = k
    IN  [r \in 1..Len(rows) |-> rows[r][j]]

\* Mutant of AboveFloor: a metric equal to the floor passes
AboveFloor_Geq(metrics, fl) ==
    \A r \in 1..Len(metrics) : metrics[r] # None => metrics[r][1] >= fl

\* line 97: all(x > floor for x in metrics if pd.notna(x))
AboveFloor(metrics, fl) ==
    \A r \in 1..Len(metrics) : metrics[r] # None => metrics[r][1] > fl

\* Mutant of FloorEnabled: the isinstance test is missing
FloorEnabled_AnyTruthy(hf) == Truthy(hf)

\* line 94: the floor is checked for this hard_fail
FloorEnabled(hf) == Truthy(hf) /\ IsStr(hf)

\* lines 94-97: the floor check
FloorCheck ==
    /\ pc = "floor"
    /\ IF FloorEnabled(hard_fail)
       THEN /\ floor' = Some(Eval(hard_fail.v))
            /\ IF AboveFloor(Column(c, y, key), Eval(hard_fail.v))
               THEN pc' = "done" /\ raised' = raised
               ELSE pc' = "raised" /\ raised' = Raise("AssertionError", 97)
       ELSE /\ pc' = "done"
            /\ UNCHANGED <<floor, raised>>
    /\ UNCHANGED <<device, hard_fail, task, system, i, cpu, gpu, filename, key, data,
                   y, c, calls, e>>

----------------------------------------------------------------------------
(* yolo.py *)

Absent == "<absent>"       \* an option that was not given on the command line
NoModel == [file |-> Unbound]

ModeArgs == {Absent, "train", "predict", "val", "export", "test", "Train", ""}
CfgArgs == {Absent, "cfg.yaml", "my.yaml"}

\* what yaml_load can return: mappings with or without a 'model' entry
Configs == {[model |-> "yolov8n.pt"], [model |-> "yolov8s.yaml"], [data |-> "coco128.yaml"]}
NoConfig == [unloaded |-> "yes"]

\* Mutant of ArgOrDefault: the default is not applied
ArgOrDefault_NoDefault(given, default) == given

\* lines 12-13: argparse's default= for an option that is not given
ArgOrDefault(given, default) == IF given = Absent THEN default ELSE given

\* Mutant of Dispatch: the chain ends in an else that trains
Dispatch_ElseTrain(mode) ==
    CASE mode = "predict" -> "predict"
      [] mode = "val" -> "val"
      [] mode = "export" -> "export"
      [] OTHER -> "train"

\* lines 26-33: the method the if/elif chain selects for a mode
Dispatch(mode) ==
    CASE mode = "train" -> "train"
      [] mode = "predict" -> "predict"
      [] mode = "val" -> "val"
      [] mode = "export" -> "export"
      [] OTHER -> "none"

\* lines 10-15, 18-20: parse_args and the two copies
ParseArgs ==
    /\ cpc = "start"
    /\ m_mode' = ArgOrDefault(argv.mode, "train")
    /\ m_cfg' = ArgOrDefault(argv.cfg, "cfg.yaml")
    /\ cpc' = "load"
    /\ UNCHANGED <<argv, m_overrides, m_model_file, model, opCalls, cerr>>

\* lines 22-23: the configuration is loaded and its 'model' entry read
LoadConfig ==
    /\ cpc = "load"
    /\ \/ /\ cpc' = "raised"                           \* check_yaml or yaml_load raises
          /\ cerr' = "yaml_load"
          /\ UNCHANGED <<m_overrides, m_model_file>>
       \/ \E cfg \in Configs :
            /\ m_overrides' = cfg
            /\ IF "model" \in DOMAIN cfg
               THEN /\ m_model_file' = cfg.model
                    /\ cpc' = "construct"
                    /\ cerr' = cerr
               ELSE /\ m_model_file' = m_model_file
                    /\ cpc' = "raised"
                    /\ cerr' = "KeyError"
    /\ UNCHANGED <<argv, m_cfg, m_mode, model, opCalls>>

\* line 24: model = YOLO(m_model_file)
Construct ==
    /\ cpc = "construct"
    /\ \/ /\ cpc' = "raised"
          /\ cerr' = "YOLO"
          /\ model' = model
       \/ /\ model' = [file |-> m_model_file]
          /\ cpc' = "dispatch"
          /\ cerr' = cerr
    /\ UNCHANGED <<argv, m_cfg, m_mode, m_overrides, m_model_file, opCalls>>

\* lines 26-33: the if/elif chain
DispatchMode ==
    /\ cpc = "dispatch"
    /\ IF Dispatch(m_mode) = "none"
       THEN /\ cpc' = "done"
            /\ UNCHANGED <<opCalls, cerr>>
       ELSE /\ opCalls' = Append(opCalls, [op |-> Dispatch(m_mode), cfg |-> m_cfg, on |-> model])
            /\ \/ cpc' = "done" /\ cerr' = cerr
               \/ cpc' = "raised" /\ cerr' = "operation"   \* the operation raises
    /\ UNCHANGED <<argv, m_cfg, m_mode, m_overrides, m_model_file, model>>

----------------------------------------------------------------------------
(* Specifications *)

BenchStart ==
    /\ pc = "try"
    /\ i = 0
    /\ cpu \in BOOLEAN
    /\ gpu \in BOOLEAN
    /\ filename = NoFile
    /\ key = Unbound
    /\ data = Unbound
    /\ y = <<>>
    /\ c = NoColumns
    /\ floor = None
    /\ raised = NoRaise
    /\ calls = <<>>
    /\ e = "none"

CliStart ==
    /\ m_cfg = Unbound
    /\ m_mode = Unbound
    /\ m_overrides = NoConfig
    /\ m_model_file = Unbound
    /\ model = NoModel
    /\ opCalls = <<>>
    /\ cpc = "start"
    /\ cerr = "none"

\* run_benchmarks after lines 44-48, at the first row of the table
Init ==
    /\ \E d \in Devices : device = TorchDeviceType(d)
    /\ hard_fail \in HardFails
    /\ task \in Tasks
    /\ system \in Systems
    /\ BenchStart
    /\ argv = [mode |-> Absent, cfg |-> Absent]
    /\ CliStart

Next ==
    \/ SupportChecks /\ UNCHANGED cvars
    \/ Export /\ UNCHANGED cvars
    \/ Validate /\ UNCHANGED cvars
    \/ Report /\ UNCHANGED cvars
    \/ FloorCheck /\ UNCHANGED cvars

Spec == Init /\ [][Next]_vars

\* yolo.py at line 17, for each command line
InitCli ==
    /\ argv \in [mode : ModeArgs, cfg : CfgArgs]
    /\ CliStart
    /\ device = TorchDeviceType(<<"c", "p", "u">>)
    /\ hard_fail = [t |-> "bool", v |-> "False"]
    /\ task = "detect"
    /\ system = "Linux"
    /\ cpu = TRUE
    /\ gpu = TRUE
    /\ BenchStart

NextCli ==
    \/ ParseArgs /\ UNCHANGED bvars
    \/ LoadConfig /\ UNCHANGED bvars
    \/ Construct /\ UNCHANGED bvars
    \/ DispatchMode /\ UNCHANGED bvars

SpecCli == InitCli /\ [][NextCli]_vars

----------------------------------------------------------------------------
(* Properties of run_benchmarks *)

CpuStr == <<"c", "p", "u">>
CudaStr == <<"c", "u", "d", "a">>

\* the current row is an unsupported combination
Unsupported ==
    \/ i \in {9, 10}
    \/ i = 5 /\ system # "Darwin"
    \/ ~cpu /\ Contains(CpuStr, device)
    \/ ~gpu /\ Contains(CudaStr, device)

\* the loop went on to the next row, or ended normally
LoopWentOn == pc' \in {"try", "report"} /\ (i + 1 < NumFormats => i' = i + 1)

\* the metric cells of the results that are not null
Measured == {y[r][4][1] : r \in {k \in 1..Len(y) : y[k][4] # None}}

\* C1: an unsupported row (index 9 or 10; index 5 off Darwin; CPU flag false
\* on a cpu device; GPU flag false on a cuda device) raises nothing out of
\* run_benchmarks and appends one failed row, whatever hard_fail is.
C1_UnsupportedRowRecorded ==
    [][(pc = "try" /\ Unsupported) =>
          /\ y' = Append(y, <<name, "FAIL", None, None, None>>)
          /\ raised' = NoRaise
          /\ LoopWentOn]_vars

\* an Edge TPU row was recorded as failed under hard_fail=True and the loop
\* went on to TensorFlow.js
C1_Witness ==
    /\ hard_fail = [t |-> "bool", v |-> "True"]
    /\ pc = "try" /\ i = 10
    /\ Len(y) = 10
    /\ y[10] = <<"TensorFlow Edge TPU", "FAIL", None, None, None>>

C3_NonAssertionFailure ==
    [][/\ (pc \in {"export", "validate"} /\ e' \notin {"none", "AssertionError"}) =>
             IF hard_fail \in {[t |-> "bool", v |-> "True"], [t |-> "str", v |-> "0.29"]}
             THEN /\ pc' = "raised"
                  /\ raised'.type = "AssertionError" /\ raised'.line = 81
                  /\ y' = y /\ i' = i
             ELSE /\ y' = Append(y, <<name, "FAIL", None, None, None>>)
                  /\ raised' = NoRaise
                  /\ LoopWentOn
       /\ pc = "raised" => UNCHANGED vars]_vars

\* validation raised a RuntimeError under a floor string and the run aborted
\* at that format
C3_Witness ==
    /\ hard_fail = [t |-> "str", v |-> "0.29"]
    /\ pc = "raised" /\ raised.line = 81
    /\ e = "RuntimeError"
    /\ calls = <<"export", "YOLO", "val">>
    /\ Len(y) = i

\* C6: the report branch does not depend on the call or on the results: every
\* report that is built has the five columns Format, Status, Size, metric
\* key, Inference time, and the reduced columns are never chosen.
C6_ReportIsAlwaysFull ==
    /\ c # ReducedColumns
    /\ (pc \in {"floor", "done"} \/ raised.line = 97) =>
           c = <<"Format", "Status", "Size (MB)", key, "Inference time (ms/im)">>

\* a full report was built with hard_fail unset and every row but one failed
C6_Witness ==
    /\ pc = "done"
    /\ hard_fail = [t |-> "bool", v |-> "False"]
    /\ Len(c) = 5 /\ c[4] = "metrics/accuracy_top5"
    /\ Cardinality({r \in 1..Len(y) : y[r][2] = "FAIL"}) = NumFormats - 1

\* C7: with hard_fail not set, run_benchmarks never ends with an exception.
C7_NeverRaisesWithoutHardFail ==
    (hard_fail \in {[t |-> "bool", v |-> "False"], [t |-> "str", v |-> ""]}) => pc # "raised"

\* C8: the results hold one row per format processed so far, in table order,
\* one per format once the loop is over, and each row is a success row with
\* no null cell or a failure row with three null cells.
C8_OneRowPerFormat ==
    /\ Len(y) = IF pc \in {"try", "export", "validate"} \/ raised.line = 81
                THEN i ELSE 12
    /\ \A r \in 1..Len(y) :
         /\ Len(y[r]) = 5
         /\ y[r][1] = Formats[r].name
         /\ \/ y[r][2] = "PASS" /\ y[r][3] # None /\ y[r][4] # None /\ y[r][5] # None
            \/ y[r][2] = "FAIL" /\ y[r][3] = None /\ y[r][4] = None /\ y[r][5] = None

\* the loop is over with both kinds of row in the table
C8_Witness ==
    /\ pc = "report"
    /\ Len(y) = 12
    /\ y[1][2] = "FAIL" /\ y[2][2] = "PASS" /\ y[12][2] = "FAIL"

\* the step called model.export / export.val
CalledExport == Len(calls') > Len(calls) /\ calls'[Len(calls) + 1] = "export"
CalledVal == Len(calls') > Len(calls) /\ calls'[Len(calls')] = "val"

\* the step is an export step that got a filename (the native row's
\* checkpoint, or what model.export returned)
YieldedFilename == pc = "export" /\ (format = "-" \/ calls' = <<"export", "YOLO">>)

\* the step recorded the row as failed and went on, without a validation call
FailedRowNoVal ==
    /\ y' = Append(y, <<name, "FAIL", None, None, None>>)
    /\ raised' = NoRaise
    /\ LoopWentOn
    /\ ~CalledVal

\* export only after the row's support checks passed and never for the native
\* row; validation only after the export step yielded a filename with the
\* row's suffix
CallsAreGuarded ==
    /\ CalledExport => pc = "export" /\ ~Unsupported /\ format # "-"
    /\ pc = "export" => ~Unsupported
    /\ CalledVal =>
          /\ pc = "validate"
          /\ Contains(suffix, filename)
          /\ calls = IF format = "-" THEN <<>> ELSE <<"export", "YOLO">>

\* C9 as stated: the calls are guarded, and a filename without the row's
\* suffix always yields a failed row, never an escalation.
C9_AsStated ==
    [][/\ CallsAreGuarded
       /\ (YieldedFilename /\ ~Contains(suffix, filename')) => FailedRowNoVal]_vars

\* C9 (amended): the calls are guarded; a filename without the row's suffix
\* yields a failed row with no validation call and no escalation unless
\* loading the exported file (line 65) raised a non-assertion error first,
\* which is escalated when hard_fail is set like any other such failure.
C9_GuardedSteps ==
    [][/\ CallsAreGuarded
       /\ (YieldedFilename /\ ~Contains(suffix, filename')) =>
             /\ ~CalledVal
             /\ pc' # "validate"
             /\ e' = "AssertionError" => FailedRowNoVal
             /\ e' # "AssertionError" =>
                   IF hard_fail \in {[t |-> "bool", v |-> "True"], [t |-> "str", v |-> "0.29"]}
                   THEN pc' = "raised" /\ raised'.line = 81 /\ y' = y
                   ELSE FailedRowNoVal]_vars

\* under hard_fail=True the TorchScript export returned a file without
\* '.torchscript'; the row was recorded as failed and the loop went on
C9_Witness ==
    /\ hard_fail = [t |-> "bool", v |-> "True"]
    /\ pc = "try" /\ i = 2
    /\ calls = <<"export", "YOLO">>
    /\ e = "AssertionError"
    /\ ~Contains(Formats[2].suffix, filename)
    /\ y[2] = <<"TorchScript", "FAIL", None, None, None>>

\* C10: the floor check runs only for a non-empty string: with hard_fail=True
\* a non-assertion failure is escalated but no floor is evaluated and no run
\* is rejected at line 97; with hard_fail=False nothing is escalated either.
C10_FloorOnlyForString ==
    /\ (hard_fail.t # "str" \/ hard_fail.v = "") => floor = None /\ raised.line # 97
    /\ hard_fail = [t |-> "bool", v |-> "True"] =>
           (e \notin {"none", "AssertionError"} => pc = "raised" /\ raised.line = 81)
    /\ hard_fail = [t |-> "bool", v |-> "False"] => raised.line \notin {81, 97}

\* hard_fail=True, the loop completed and the run ended normally with a
\* measured metric below 0.29
C10_Witness ==
    /\ hard_fail = [t |-> "bool", v |-> "True"]
    /\ pc = "done"
    /\ 28990 \in Measured

----------------------------------------------------------------------------
(* Properties of yolo.py *)

Operations == {"train", "predict", "val", "export"}

\* C4: with a --mode value that is none of the four, no model operation is
\* ever invoked and the dispatch ends the script without an error.
C4_UnknownModeDoesNothing ==
    [][(argv.mode \notin Operations \cup {Absent}) =>
          /\ opCalls' = <<>>
          /\ cpc = "dispatch" => cpc' = "done" /\ cerr' = "none"]_vars

\* the script ended after --mode test, the model built, nothing invoked
C4_Witness ==
    /\ argv.mode = "test"
    /\ cpc = "done"
    /\ model # NoModel
    /\ opCalls = <<>>

\* C5: for a mode among the four (train when --mode is omitted) the script
\* invokes exactly the operation of that name, once, with the --cfg path
\* ('cfg.yaml' when omitted), on the model built from the configuration's
\* 'model' entry.
C5_DispatchInvokesNamedOperation ==
    LET mode == IF argv.mode = Absent THEN "train" ELSE argv.mode
        path == IF argv.cfg = Absent THEN "cfg.yaml" ELSE argv.cfg
    IN  /\ Len(opCalls) <= 1
        /\ opCalls # <<>> =>
               /\ mode \in Operations
               /\ opCalls[1] = [op |-> mode, cfg |-> path, on |-> [file |-> m_overrides.model]]
        /\ (mode \in Operations /\ (cpc = "done" \/ cerr = "operation")) => Len(opCalls) = 1

\* --mode and --cfg both omitted: train was invoked with cfg.yaml
C5_Witness ==
    /\ argv = [mode |-> Absent, cfg |-> Absent]
    /\ cpc = "done"
    /\ opCalls = <<[op |-> "train", cfg |-> "cfg.yaml", on |-> [file |-> "yolov8s.yaml"]]>>

====
